---- MODULE Spec2Model ----
(***************************************************************************)
(* Model of pybee/core.py: beeline_session and run_sql.                    *)
(*                                                                         *)
(* Text is a sequence of one-character strings, so that substring search,  *)
(* line-ending normalisation, trimming and the row-count regular           *)
(* expression are computed the way the Python code computes them.          *)
(* Time is counted in milliseconds: time.sleep(0.001) is one tick.         *)
(* Steps other than time.sleep take no time.                               *)
(***************************************************************************)
EXTENDS Integers, Sequences, FiniteSets, TLC

(* ---------------------------------------------------------------- bounds *)
MaxChunks == 2      \* chunks the remote tool emits during one call
MaxTimeout == 1     \* largest timeout argument tried (milliseconds)

(* ------------------------------------------------------ program constants *)
InitTimeout == 10000   \* beeline_session(timeout=10), in ms
InitSleep == 100       \* time.sleep(0.1)
PollSleep == 1         \* time.sleep(0.001)
CloseSleep == 500      \* time.sleep(0.5)
DashCount == 70        \* "-" * 70

(* ------------------------------------------------------------------ text *)
Whitespace == {" ", "\n", "\r", "\t"}
Digits == {"0", "1", "2", "3", "4", "5", "6", "7", "8", "9"}

Min(a, b) == IF a < b THEN a ELSE b

\* s[i:] with a Python (0-based) index
From(s, i) == SubSeq(s, i + 1, Len(s))

\* s[:i] with a Python (0-based) index
Upto(s, i) == SubSeq(s, 1, i)

\* p occurs in s at the 0-based position i
StartsAt(s, i, p) ==
    /\ i >= 0
    /\ i + Len(p) <= Len(s)
    /\ \A k \in 1..Len(p) : s[i + k] = p[k]

\* str.find: the lowest 0-based index at which p occurs in s, or -1
Find(s, p) ==
    LET hits == {i \in 0..Len(s) : StartsAt(s, i, p)}
    IN  IF hits = {} THEN -1 ELSE CHOOSE i \in hits : \A j \in hits : i <= j

\* the Python test  p in s
Contains(s, p) == Find(s, p) # -1

\* str.lstrip()
LStrip(s) ==
    LET keep == {i \in 1..Len(s) : s[i] \notin Whitespace}
    IN  IF keep = {} THEN <<>>
        ELSE SubSeq(s, CHOOSE i \in keep : \A j \in keep : i <= j, Len(s))

\* str.rstrip()
RStrip(s) ==
    LET keep == {i \in 1..Len(s) : s[i] \notin Whitespace}
    IN  IF keep = {} THEN <<>>
        ELSE SubSeq(s, 1, CHOOSE i \in keep : \A j \in keep : i >= j)

\* str.strip()
Strip(s) == LStrip(RStrip(s))

Dashes == [i \in 1..DashCount |-> "-"]

(* ------------------------------------------------------------- literals *)
ConnMarker ==
    <<"C","o","n","n","e","c","t","i","n","g"," ","t","o"," ",
      "j","d","b","c",":","f","i","b","e","r">>
RowsSelected == <<"r","o","w","s"," ","s","e","l","e","c","t","e","d">>
NoRowsSelected == <<"N","o"," ">> \o RowsSelected
RowSelected == <<"r","o","w"," ","s","e","l","e","c","t","e","d">>
OneRowSelected == <<"1"," ">> \o RowSelected
ErrorWord == <<"E","r","r","o","r">>

(* ---------------------------------------------------------- collaborators *)
\* utils.clean_sql: strips surrounding whitespace from the query text
clean_sql(q) == Strip(q)

(* ----------------------------------------------------- transcript parsing *)
\* output.replace('\r\n', '\n'): one left-to-right pass, non-overlapping
RECURSIVE Normalize(_)
Normalize(s) ==
    IF s = <<>> THEN <<>>
    ELSE IF Len(s) >= 2 /\ s[1] = "\r" /\ s[2] = "\n"
         THEN <<"\n">> \o Normalize(SubSeq(s, 3, Len(s)))
         ELSE <<s[1]>> \o Normalize(Tail(s))

\* k digits stand at the 0-based position p
DigitsAt(s, p, k) ==
    /\ p + k <= Len(s)
    /\ \A j \in 1..k : s[p + j] \in Digits

\* g groups  ,ddd  stand at the 0-based position p
GroupsAt(s, p, g) ==
    /\ p + 4 * g <= Len(s)
    /\ \A n \in 0..(g - 1) : s[p + 4 * n + 1] = "," /\ DigitsAt(s, p + 4 * n + 1, 3)

\* lengths of the matches of  \d{1,3}(,\d{3})*\srows selected  at position p
CountedRowsLens(s, p) ==
    {k + 4 * g + 1 + Len(RowsSelected) :
        <<k, g>> \in {kg \in (1..3) \X (0..(Len(s) \div 4)) :
            /\ DigitsAt(s, p, kg[1])
            /\ GroupsAt(s, p + kg[1], kg[2])
            /\ p + kg[1] + 4 * kg[2] + 1 <= Len(s)
            /\ s[p + kg[1] + 4 * kg[2] + 1] \in Whitespace
            /\ StartsAt(s, p + kg[1] + 4 * kg[2] + 1, RowsSelected)}}

\* length of the match at position p of the group
\*   (\d{1,3}(,\d{3})*\srows selected|No rows selected|1 row selected)
\* or 0 when the group does not match there
RowCountLen(s, p) ==
    IF CountedRowsLens(s, p) # {}
    THEN CHOOSE n \in CountedRowsLens(s, p) : \A m \in CountedRowsLens(s, p) : n >= m
    ELSE IF StartsAt(s, p, NoRowsSelected) THEN Len(NoRowsSelected)
    ELSE IF StartsAt(s, p, OneRowSelected) THEN Len(OneRowSelected)
    ELSE 0

\* 0-based position of the leftmost match of the pattern  \n(...)  in s, or -1
PatternPos(s) ==
    LET hits == {i \in 0..(Len(s) - 1) : s[i + 1] = "\n" /\ RowCountLen(s, i + 1) > 0}
    IN  IF hits = {} THEN -1 ELSE CHOOSE i \in hits : \A j \in hits : i <= j

\* rows: "\n" + parts[1] when re.split found the pattern, else ""
RowsOf(s) ==
    IF PatternPos(s) = -1 THEN <<>>
    ELSE <<"\n">> \o SubSeq(s, PatternPos(s) + 2, PatternPos(s) + 1 + RowCountLen(s, PatternPos(s) + 1))

\* parts[0] of re.split(pattern, s, maxsplit=1)
BeforeRows(s) == IF PatternPos(s) = -1 THEN s ELSE Upto(s, PatternPos(s))

\* the text that follows the echoed query, without the lstrip()
AfterEchoUntrimmed(out, cleaned) == From(out, Find(out, cleaned) + Len(cleaned))

\* the text that follows the echoed query, left-trimmed
AfterEcho(out, cleaned) == LStrip(From(out, Find(out, cleaned) + Len(cleaned)))

\* the test without its first half: the echo need not have been found
SplitsRowsWithoutEcho(out, cleaned) == ~Contains(out, ErrorWord)

\* the branch test  sql_index != -1 and "Error" not in output
SplitsRows(out, cleaned) == Find(out, cleaned) # -1 /\ ~Contains(out, ErrorWord)

\* the parsing step with the whole transcript trimmed when no echo is found
ParseNormalizedTrimmed(out, q) ==
    LET cleaned == Strip(clean_sql(q))
    IN  IF SplitsRows(out, cleaned)
        THEN [query_output |-> BeforeRows(AfterEcho(out, cleaned)),
              rows |-> RowsOf(AfterEcho(out, cleaned))]
        ELSE [query_output |-> IF Find(out, cleaned) # -1
                               THEN AfterEcho(out, cleaned) ELSE Strip(out),
              rows |-> <<>>]

\* lines 100-110, on the normalised transcript out and the query variable q
ParseNormalized(out, q) ==
    LET cleaned == Strip(clean_sql(q))
    IN  IF SplitsRows(out, cleaned)
        THEN [query_output |-> BeforeRows(AfterEcho(out, cleaned)),
              rows |-> RowsOf(AfterEcho(out, cleaned))]
        ELSE [query_output |-> IF Find(out, cleaned) # -1
                               THEN AfterEcho(out, cleaned) ELSE out,
              rows |-> <<>>]

\* lines 99-110: the parsing step of run_sql on a raw transcript
ParseTranscript(t, q) == ParseNormalized(Normalize(t), q)

(* ---------------------------------------------------------- remote stream *)
\* the pieces in which the remote tool delivers its output
ChunkBanner == ConnMarker \o <<"\n">>
ChunkTable ==
    <<"q","\r","\n","+","-","+","\r","\n","|","a","|","\r","\n","+","-","+","\r","\n",
      "3"," ","r","o","w","s"," ","s","e","l">>
ChunkTail == <<"e","c","t","e","d","\n">>
ChunkError == ErrorWord \o <<"\r","\r","\n">>
Chunks == {ChunkBanner, ChunkTable, ChunkTail, ChunkError}
\* the value None of an argument that was not given
None == <<"<None>">>

\* default_queue before the configuration has been read
Unread == <<"<unread>">>

Adhoc == <<"a", "d", "h", "o", "c">>

Etl == <<"e", "t", "l">>

\* the queue_name arguments tried: not given, or a queue of the caller
QueueArgs == {None, Etl}

\* what the configuration holds under DEFAULT_QUEUE; the empty text stands
\* for a mapping without the key, for which get returns ""
DefaultQueues == {<<>>, Adhoc}

\* queue_name left as it was passed: the configured default is not consulted
ResolveQueueNoDefault(q, d) == IF q = None THEN <<>> ELSE q

\* if queue_name is None: queue_name = BEELINE_CONFIG().get("DEFAULT_QUEUE", "")
ResolveQueue(q, d) == IF q = None THEN d ELSE q

\* the part of the command up to the launch of the tool; the four values
\* taken from the configuration are written as one element each
Launch ==
    <<"s", "o", "u", "r", "c", "e", " ", "<env_path>", ";", " ",
      "k", "i", "n", "i", "t", " ", "-", "k", "t", " ", "<keytab_path>", " ",
      "<user>", ";", " ", "<beeline_path>">>

\* beeline_command + "\n": the queue is an argument of the tool when
\* queue_name is neither None nor empty
BeelineCommand(q) ==
    IF q # None /\ q # <<>>
    THEN Launch \o <<" ">> \o q \o <<";", "\n">>
    ELSE Launch \o <<";", "\n">>


\* the query texts a caller passes
Queries == {<<"q">>, <<" ", "x">>}

(* ------------------------------------------------------------ execution log *)
\* datetime.now().strftime("%Y-%m-%d %H:%M:%S"), kept as one opaque field
Timestamp == <<"<timestamp>">>

\* the five log_file.write calls of lines 126-130, in order
LogWrites(q, body, status) ==
    << <<"\n", "\n">> \o Dashes \o <<"\n">>,
       Timestamp \o <<"\n">>,
       Dashes \o <<"\n">>,
       <<"\n">> \o q \o <<"\n", "\n">>,
       LStrip(body) \o status \o <<"\n">> >>

RECURSIVE Flatten(_)
Flatten(ss) == IF ss = <<>> THEN <<>> ELSE Head(ss) \o Flatten(Tail(ss))

\* the record block one call appends
LogBlock(q, body, status) == Flatten(LogWrites(q, body, status))

\* the file opened with mode "w": the old content is gone
OpenedTruncating(old) == <<>>

\* open(log_file_path, "a"): what the file holds after it was opened
OpenedForAppend(old) == old

\* the file as an earlier call of the same day has left it
PriorLog == LogBlock(<<"q">>, <<"o", "k">>, <<>>)

\* where os.makedirs, open or write can fail
LogFaults == {"makedirs", "open", "write"}

(* ------------------------------------------------------------------ state *)
VARIABLES
    pc,            \* position of the run_sql call
    orig_query,    \* the sql_query argument as the caller passed it
    sql_query,     \* the variable sql_query
    timeout,       \* the timeout argument
    log_enabled,   \* the log_enabled argument
    conn,          \* ssh_client: "none", "open" or "closed"
    chan,          \* data the shell channel holds ready for recv
    produced,      \* chunks the remote tool has emitted
    elapsed,       \* time.time() - start_time of the current loop
    sinceEntry,    \* time since run_sql was entered, saturated at ElapsedCap
    output,        \* the variable output of run_sql
    reads,         \* the chunks read by the poll loop, in arrival order
    query_output,  \* the variable query_output
    rows,          \* the variable rows
    log_file,      \* content of today's log file
    prev_len,      \* length of the log file when the call was entered
    fault,         \* the failure raised by the logging step, "none" if none
    alerts,        \* calls of alert() made by this call
    exit_kind,     \* how the poll loop ended: "none", "marker" or "timeout"
    ret,           \* the returned pair, <<>> while nothing is returned
    queue_arg,     \* the argument queue_name as the caller passed it
    queue_name,    \* the variable queue_name of run_sql
    default_queue, \* what BEELINE_CONFIG().get("DEFAULT_QUEUE", "") returned
    command,       \* the text beeline_session sent to the shell
    stale          \* the data that was ready, unread, when the query was sent

vars == <<pc, orig_query, sql_query, timeout, log_enabled, conn, chan, produced,
          elapsed, sinceEntry, output, reads, query_output, rows, log_file,
          prev_len, fault, alerts, exit_kind, ret, queue_arg, queue_name,
          default_queue, command, stale>>

\* counters of time stop here once the value can no longer matter
ElapsedCap == MaxTimeout + PollSleep + 1

Advance(t, d) == Min(t + d, ElapsedCap)

Timeouts == 0..MaxTimeout

Init ==
    /\ pc = "idle"
    /\ orig_query = <<>>
    /\ sql_query = <<>>
    /\ timeout = 0
    /\ log_enabled = FALSE
    /\ conn = "none"
    /\ chan = <<>>
    /\ produced = 0
    /\ elapsed = 0
    /\ sinceEntry = 0
    /\ output = <<>>
    /\ reads = <<>>
    /\ query_output = <<>>
    /\ rows = <<>>
    /\ log_file = PriorLog
    /\ prev_len = Len(log_file)
    /\ fault = "none"
    /\ alerts = 0
    /\ exit_kind = "none"
    /\ ret = <<>>
    /\ queue_arg = None
    /\ queue_name = None
    /\ default_queue = Unread
    /\ command = <<>>
    /\ stale = <<>>

(* ---------------------------------------------------------- transport side *)
\* ssh_connection and the shell are collaborators outside core.py: their
\* calls succeed, recv returns all the data that is ready, and the remote
\* tool may emit any of the chunks at any moment of the call.
\* shell.recv_ready()
recv_ready == chan # <<>>

\* the remote tool emits one more chunk while the call is running
Remote(c) ==
    /\ conn = "open"
    /\ pc \notin {"idle", "done", "raised"}
    /\ produced < MaxChunks
    /\ chan' = chan \o c
    /\ produced' = produced + 1
    /\ UNCHANGED <<queue_arg, queue_name, default_queue, command, stale,
                   pc, orig_query, sql_query, timeout, log_enabled, conn, elapsed,
                   sinceEntry, output, reads, query_output, rows, log_file,
                   prev_len, fault, alerts, exit_kind, ret>>

(* ------------------------------------------------------------------ run_sql *)
\* entry of run_sql up to ssh_connection()
Call(q, t, l, qn, d) ==
    /\ pc = "idle"
    /\ orig_query' = q
    /\ sql_query' = q
    /\ timeout' = t
    /\ log_enabled' = l
    /\ conn' = "open"
    /\ chan' = <<>>
    /\ sinceEntry' = 0
    /\ prev_len' = Len(log_file)
    /\ queue_arg' = qn
    /\ default_queue' = IF qn = None THEN d ELSE Unread
    /\ queue_name' = ResolveQueue(qn, d)
    /\ pc' = "init_send"
    /\ UNCHANGED <<command, stale,
                   produced, elapsed, output, reads, query_output, rows, log_file,
                   fault, alerts, exit_kind, ret>>

(* --------------------------------------------------------- beeline_session *)
\* the command is sent and the wait starts
InitSend ==
    /\ pc = "init_send"
    /\ command' = BeelineCommand(queue_name)
    /\ elapsed' = 0
    /\ pc' = "init"
    /\ UNCHANGED <<queue_arg, queue_name, default_queue, stale,
                   orig_query, sql_query, timeout, log_enabled, conn, chan, produced,
                   sinceEntry, output, reads, query_output, rows, log_file,
                   prev_len, fault, alerts, exit_kind, ret>>

\* "Connecting to jdbc:fiber" in new_data
Connected(new_data) == Contains(new_data, ConnMarker)

\* time.time() - start_time > timeout, in beeline_session
InitTimedOut(e) == e > InitTimeout

\* one iteration that reads a chunk holding the connection marker; the
\* clock of the wait is a local of beeline_session and ends with it
InitConnect ==
    /\ pc = "init"
    /\ recv_ready
    /\ Connected(chan)
    /\ chan' = <<>>
    /\ elapsed' = 0
    /\ pc' = "clean"
    /\ UNCHANGED <<queue_arg, queue_name, default_queue, command, stale,
                   orig_query, sql_query, timeout, log_enabled, conn, produced,
                   sinceEntry, output, reads, query_output, rows, log_file,
                   prev_len, fault, alerts, exit_kind, ret>>

\* the wait ending as the docstring announces it: raise TimeoutError
AfterInitTimeoutRaising(e) == "raised"

\* where control goes when the time of the wait is over: break, and
\* beeline_session returns to run_sql
AfterInitTimeout(e) == "clean"

\* one iteration that ends the wait because the time is over
InitGiveUp ==
    /\ pc = "init"
    /\ ~(recv_ready /\ Connected(chan))
    /\ InitTimedOut(elapsed)
    /\ chan' = <<>>
    /\ elapsed' = 0
    /\ pc' = AfterInitTimeout(elapsed)
    /\ UNCHANGED <<queue_arg, queue_name, default_queue, command, stale,
                   orig_query, sql_query, timeout, log_enabled, conn, produced,
                   sinceEntry, output, reads, query_output, rows, log_file,
                   prev_len, fault, alerts, exit_kind, ret>>

\* one iteration that reads what is there, if anything, and sleeps
InitWait ==
    /\ pc = "init"
    /\ ~(recv_ready /\ Connected(chan))
    /\ ~InitTimedOut(elapsed)
    /\ chan' = <<>>
    /\ elapsed' = elapsed + InitSleep
    /\ sinceEntry' = Advance(sinceEntry, InitSleep)
    /\ UNCHANGED <<queue_arg, queue_name, default_queue, command, stale,
                   pc, orig_query, sql_query, timeout, log_enabled, conn, produced,
                   output, reads, query_output, rows, log_file, prev_len, fault,
                   alerts, exit_kind, ret>>

(* ------------------------------------------------- run_sql, after the session *)
\* sql_query = clean_sql(sql_query)
CleanQuery ==
    /\ pc = "clean"
    /\ sql_query' = clean_sql(sql_query)
    /\ pc' = "drain"
    /\ UNCHANGED <<queue_arg, queue_name, default_queue, command, stale,
                   orig_query, timeout, log_enabled, conn, chan, produced, elapsed,
                   sinceEntry, output, reads, query_output, rows, log_file,
                   prev_len, fault, alerts, exit_kind, ret>>

\* while shell.recv_ready(): shell.recv(65535)
DrainRead ==
    /\ pc = "drain"
    /\ recv_ready
    /\ chan' = <<>>
    /\ UNCHANGED <<queue_arg, queue_name, default_queue, command, stale,
                   pc, orig_query, sql_query, timeout, log_enabled, conn, produced,
                   elapsed, sinceEntry, output, reads, query_output, rows, log_file,
                   prev_len, fault, alerts, exit_kind, ret>>

\* the drain loop finds nothing ready
DrainDone ==
    /\ pc = "drain"
    /\ ~recv_ready
    /\ pc' = "send"
    /\ UNCHANGED <<queue_arg, queue_name, default_queue, command, stale,
                   orig_query, sql_query, timeout, log_enabled, conn, chan, produced,
                   elapsed, sinceEntry, output, reads, query_output, rows, log_file,
                   prev_len, fault, alerts, exit_kind, ret>>

\* shell.send(sql_query + "\n;\n"); output = ''; start_time = time.time()
Send ==
    /\ pc = "send"
    /\ output' = <<>>
    /\ reads' = <<>>
    /\ elapsed' = 0
    /\ stale' = chan
    /\ pc' = "poll"
    /\ UNCHANGED <<queue_arg, queue_name, default_queue, command,
                   orig_query, sql_query, timeout, log_enabled, conn, chan, produced,
                   sinceEntry, query_output, rows, log_file, prev_len, fault,
                   alerts, exit_kind, ret>>

\* the timeout test one polling interval too late
TimedOutLate(t, e) == t > 0 /\ e > t + PollSleep

\* the timeout test without the guard  timeout > 0
TimedOutAlways(t, e) == e > t

\* timeout > 0 and time.time() - start_time > timeout
TimedOut(t, e) == t > 0 /\ e > t

\* the marker test with "Error" left out of the pattern list
HasMarkerNoError(new_data) ==
    \/ Contains(new_data, RowsSelected)
    \/ Contains(new_data, NoRowsSelected)
    \/ Contains(new_data, RowSelected)

\* any(pattern in new_data for pattern in [...])
HasMarker(new_data) ==
    \/ Contains(new_data, RowsSelected)
    \/ Contains(new_data, NoRowsSelected)
    \/ Contains(new_data, RowSelected)
    \/ Contains(new_data, ErrorWord)

\* output += new_data
Accumulate(out, new_data) == out \o new_data

\* the marker test made on the whole transcript read so far
StopsOnTranscript(out, new_data) == HasMarker(out)

\* the test that ends the loop after a read, out being the transcript with
\* new_data appended: only new_data is looked at
StopsOn(out, new_data) == HasMarker(new_data)

\* the data test placed before the timeout test: the time is looked at
\* only when nothing is ready
ExitsOnTimeoutAfterData(t, e, ready) == ~ready /\ TimedOut(t, e)

\* the first test of an iteration is the timeout test of line 85, whether
\* or not data is ready
ExitsOnTimeout(t, e, ready) == TimedOut(t, e)

\* the notification left out
alertOmitted(a) == a

\* alert(): one more notification has been made
alert(a) == a + 1

\* the iteration that finds the time over: alert(), break
PollTimeout ==
    /\ pc = "poll"
    /\ ExitsOnTimeout(timeout, elapsed, recv_ready)
    /\ alerts' = alert(alerts)
    /\ exit_kind' = "timeout"
    /\ pc' = "parse"
    /\ UNCHANGED <<queue_arg, queue_name, default_queue, command, stale,
                   orig_query, sql_query, timeout, log_enabled, conn, chan, produced,
                   elapsed, sinceEntry, output, reads, query_output, rows, log_file,
                   prev_len, fault, ret>>

\* the iteration that reads a chunk; alert() and break when it holds a marker
PollRead ==
    /\ pc = "poll"
    /\ ~ExitsOnTimeout(timeout, elapsed, recv_ready)
    /\ recv_ready
    /\ output' = Accumulate(output, chan)
    /\ reads' = Append(reads, chan)
    /\ chan' = <<>>
    /\ IF StopsOn(Accumulate(output, chan), chan)
       THEN /\ alerts' = alert(alerts)
            /\ exit_kind' = "marker"
            /\ pc' = "parse"
       ELSE UNCHANGED <<alerts, exit_kind, pc>>
    /\ UNCHANGED <<queue_arg, queue_name, default_queue, command, stale,
                   orig_query, sql_query, timeout, log_enabled, conn, produced,
                   elapsed, sinceEntry, query_output, rows, log_file, prev_len,
                   fault, ret>>

\* the iteration that finds nothing ready: time.sleep(0.001)
PollWait ==
    /\ pc = "poll"
    /\ ~ExitsOnTimeout(timeout, elapsed, recv_ready)
    /\ ~recv_ready
    /\ elapsed' = Advance(elapsed, PollSleep)
    /\ sinceEntry' = Advance(sinceEntry, PollSleep)
    /\ UNCHANGED <<queue_arg, queue_name, default_queue, command, stale,
                   pc, orig_query, sql_query, timeout, log_enabled, conn, chan,
                   produced, output, reads, query_output, rows, log_file, prev_len,
                   fault, alerts, exit_kind, ret>>

\* lines 99-110
Parse ==
    /\ pc = "parse"
    /\ output' = Normalize(output)
    /\ query_output' = ParseTranscript(output, sql_query).query_output
    /\ rows' = ParseTranscript(output, sql_query).rows
    /\ pc' = "log"
    /\ UNCHANGED <<queue_arg, queue_name, default_queue, command, stale,
                   orig_query, sql_query, timeout, log_enabled, conn, chan, produced,
                   elapsed, sinceEntry, reads, log_file, prev_len, fault, alerts,
                   exit_kind, ret>>

\* log_enabled is false: nothing is written
LogSkip ==
    /\ pc = "log"
    /\ ~log_enabled
    /\ pc' = "close"
    /\ UNCHANGED <<queue_arg, queue_name, default_queue, command, stale,
                   orig_query, sql_query, timeout, log_enabled, conn, chan, produced,
                   elapsed, sinceEntry, output, reads, query_output, rows, log_file,
                   prev_len, fault, alerts, exit_kind, ret>>

\* lines 113-130 when every file operation succeeds
LogWrite ==
    /\ pc = "log"
    /\ log_enabled
    /\ log_file' = OpenedForAppend(log_file) \o LogBlock(sql_query, query_output, rows)
    /\ pc' = "close"
    /\ UNCHANGED <<queue_arg, queue_name, default_queue, command, stale,
                   orig_query, sql_query, timeout, log_enabled, conn, chan, produced,
                   elapsed, sinceEntry, output, reads, query_output, rows, prev_len,
                   fault, alerts, exit_kind, ret>>

\* the failure caught and dropped: the call goes on to close and return
AfterLogFaultSwallowed(f) == "close"

\* where control goes when a file operation of the logging step raises:
\* there is no handler, so the exception leaves run_sql
AfterLogFault(f) == "raised"

\* lines 113-130 when os.makedirs, open or one of the writes raises;
\* k is the number of writes that took effect before a write failed
LogFail(f, k) ==
    /\ pc = "log"
    /\ log_enabled
    /\ fault' = f
    /\ log_file' = IF f = "write"
                   THEN OpenedForAppend(log_file) \o
                        Flatten(SubSeq(LogWrites(sql_query, query_output, rows), 1, k))
                   ELSE log_file
    /\ pc' = AfterLogFault(f)
    /\ UNCHANGED <<queue_arg, queue_name, default_queue, command, stale,
                   orig_query, sql_query, timeout, log_enabled, conn, chan, produced,
                   elapsed, sinceEntry, output, reads, query_output, rows, prev_len,
                   alerts, exit_kind, ret>>

\* the connection left as it is
closeSkipped(c) == c

\* ssh_client.close()
close(c) == "closed"

\* ssh_client.close(); time.sleep(0.5)
Close ==
    /\ pc = "close"
    /\ conn' = close(conn)
    /\ chan' = <<>>
    /\ sinceEntry' = Advance(sinceEntry, CloseSleep)
    /\ pc' = "return"
    /\ UNCHANGED <<queue_arg, queue_name, default_queue, command, stale,
                   orig_query, sql_query, timeout, log_enabled, produced, elapsed,
                   output, reads, query_output, rows, log_file, prev_len, fault,
                   alerts, exit_kind, ret>>

\* return query_output, rows
Return ==
    /\ pc = "return"
    /\ ret' = <<query_output, rows>>
    /\ pc' = "done"
    /\ UNCHANGED <<queue_arg, queue_name, default_queue, command, stale,
                   orig_query, sql_query, timeout, log_enabled, conn, chan, produced,
                   elapsed, sinceEntry, output, reads, query_output, rows, log_file,
                   prev_len, fault, alerts, exit_kind>>

\* calls with every query, timeout and logging choice; queue_name is not
\* passed and the configuration names the default queue
Next ==
    \/ \E c \in Chunks : Remote(c)
    \/ \E q \in Queries, t \in Timeouts, l \in BOOLEAN : Call(q, t, l, None, Adhoc)
    \/ InitSend
    \/ InitConnect
    \/ InitGiveUp
    \/ InitWait
    \/ CleanQuery
    \/ DrainRead
    \/ DrainDone
    \/ Send
    \/ PollTimeout
    \/ PollRead
    \/ PollWait
    \/ Parse
    \/ LogSkip
    \/ LogWrite
    \/ \E f \in LogFaults, k \in 0..4 : LogFail(f, k)
    \/ Close
    \/ Return

Spec == Init /\ [][Next]_vars

\* calls with every choice of queue_name and of the configured default, for
\* one query and the largest timeout
NextQueue ==
    \/ \E c \in Chunks : Remote(c)
    \/ \E l \in BOOLEAN, qn \in QueueArgs, d \in DefaultQueues :
          Call(<<"q">>, MaxTimeout, l, qn, d)
    \/ InitSend
    \/ InitConnect
    \/ InitGiveUp
    \/ InitWait
    \/ CleanQuery
    \/ DrainRead
    \/ DrainDone
    \/ Send
    \/ PollTimeout
    \/ PollRead
    \/ PollWait
    \/ Parse
    \/ LogSkip
    \/ LogWrite
    \/ \E f \in LogFaults, k \in 0..4 : LogFail(f, k)
    \/ Close
    \/ Return

SpecQueue == Init /\ [][NextQueue]_vars

(* ==================================================================== *)
(* Properties                                                             *)
(* ==================================================================== *)
Last(ss) == ss[Len(ss)]

\* the call has ended: it returned or an exception left it
Ended == pc \in {"done", "raised"}

\* the poll loop has been left
LoopLeft == pc \in {"parse", "log", "close", "return", "done", "raised"}

(* C1: every call that acquired a transport connection has closed it when  *)
(* the call ends, whether it returns or an error propagates out of it.     *)
C1_ConnectionClosedAtEnd == (Ended /\ conn # "none") => conn = "closed"

(* C2, as claimed: with timeout > 0 the whole call, from entry on, never   *)
(* runs longer than timeout plus one polling interval.                     *)
C2_WholeCallBounded ==
    (timeout > 0 /\ pc # "idle") => sinceEntry <= timeout + PollSleep

(* C2, amended: with timeout > 0 the poll loop, from the sending of the    *)
(* query to the exit of the loop, never runs longer than timeout plus one  *)
(* polling interval; the wait of beeline_session before it is bounded by   *)
(* its own timeout plus one of its polling intervals.                      *)
C2_PollLoopBounded ==
    /\ (timeout > 0 /\ pc \in {"poll", "parse"}) => elapsed <= timeout + PollSleep
    /\ pc = "init" => elapsed <= InitTimeout + InitSleep

C2_Witness ==
    /\ pc = "parse"
    /\ exit_kind = "timeout"
    /\ reads = <<>>
    /\ elapsed = timeout + PollSleep

(* C3: with timeout = 0 the poll loop is left only by a read of a chunk    *)
(* that holds a terminal marker, and the timeout exit is taken only when   *)
(* timeout is strictly positive.                                           *)
C3_NoExitWithoutMarker ==
    /\ [](exit_kind = "timeout" => timeout > 0)
    /\ [][(pc = "poll" /\ pc' # "poll" /\ timeout = 0)
            => (reads' # reads /\ HasMarker(Last(reads')))]_vars

C3_Witness ==
    /\ timeout = 0
    /\ pc = "poll"
    /\ elapsed = ElapsedCap
    /\ produced = MaxChunks
    /\ reads # <<>>
    /\ chan = <<>>

\* a digit followed by " rows selected" occurs in c
CountedRowsIn(c) ==
    \E i \in 1..Len(c) : c[i] \in Digits /\ StartsAt(c, i, <<" ">> \o RowsSelected)

\* the terminal markers: a row-count phrasing or the substring "Error"
TerminalMarker(c) ==
    \/ CountedRowsIn(c)
    \/ Contains(c, NoRowsSelected)
    \/ Contains(c, OneRowSelected)
    \/ Contains(c, ErrorWord)

(* C4: the poll loop stops at the first chunk that holds a terminal        *)
(* marker; at the exit the transcript is the concatenation, in arrival     *)
(* order, of the chunks read since the query was sent, the last of them    *)
(* the marker chunk; after the exit no chunk is read or appended.          *)
C4_StopsAtFirstMarker ==
    /\ [](pc = "poll" => \A i \in 1..Len(reads) : ~TerminalMarker(reads[i]))
    /\ [](pc \in {"poll", "parse"} => output = Flatten(reads))
    /\ []((pc = "parse" /\ exit_kind = "marker") =>
            /\ reads # <<>>
            /\ TerminalMarker(Last(reads))
            /\ \A i \in 1..(Len(reads) - 1) : ~TerminalMarker(reads[i]))
    /\ [][LoopLeft =>
            /\ reads' = reads
            /\ (output' = output \/ (pc = "parse" /\ output' = Normalize(output)))
            /\ (chan' = chan \/ pc = "close" \/ \E c \in Chunks : chan' = chan \o c)]_vars

C4_Witness ==
    /\ pc = "parse"
    /\ exit_kind = "marker"
    /\ Len(reads) = 2

(* C5: a call that ends after a tool-reported error ("Error" in the        *)
(* transcript) or by the timeout exit returns an empty status line.        *)
C5_EmptyStatusOnErrorOrTimeout ==
    (pc = "done" /\ (exit_kind = "timeout" \/ Contains(output, ErrorWord)))
        => ret[2] = <<>>

(* ------------------------------------------- the table layout of section 8 *)
\* 0-based positions at which a line of s starts
LineStarts(s) ==
    {st \in 0..(Len(s) - 1) : st = 0 \/ s[st] = "\n"}

\* 0-based position just behind the line that starts at st
LineEnd(s, st) ==
    LET nls == {j \in (st + 1)..Len(s) : s[j] = "\n"}
    IN  IF nls = {} THEN Len(s) ELSE (CHOOSE j \in nls : \A k \in nls : j <= k) - 1

LineAt(s, st) == SubSeq(s, st + 1, LineEnd(s, st))

\* a table border: a line starting with "+" and containing "-"
IsBorder(l) == Len(l) > 0 /\ l[1] = "+" /\ \E j \in 1..Len(l) : l[j] = "-"

BorderStarts(s) == {st \in LineStarts(s) : IsBorder(LineAt(s, st))}

FirstBorder(s) == CHOOSE st \in BorderStarts(s) : \A o \in BorderStarts(s) : st <= o

LastBorder(s) == CHOOSE st \in BorderStarts(s) : \A o \in BorderStarts(s) : st >= o

\* the block from the first border line to the last border line, trimmed
BorderedBlock(s) == Strip(SubSeq(s, FirstBorder(s) + 1, LineEnd(s, LastBorder(s))))

\* a row-count line: "<digits> rows selected", "No rows selected", "1 row selected"
IsCountLine(l) ==
    LET t == Strip(l)
    IN  \/ \E k \in 1..Len(t), w \in 1..Len(t) :
              /\ DigitsAt(t, 0, k)
              /\ k + w <= Len(t)
              /\ \A j \in (k + 1)..(k + w) : t[j] \in Whitespace
              /\ (StartsAt(t, k + w, RowsSelected) \/ StartsAt(t, k + w, RowSelected))
        \/ StartsAt(t, 0, NoRowsSelected)

\* starts of the row-count lines behind the closing border
CountLineStarts(s) ==
    {st \in LineStarts(s) : st > LastBorder(s) /\ IsCountLine(LineAt(s, st))}

\* the first row-count line behind the closing border, trimmed
CountLineAfterTable(s) ==
    Strip(LineAt(s, CHOOSE st \in CountLineStarts(s) : \A o \in CountLineStarts(s) : st <= o))

\* s holds a well-formed table followed by a row-count line
TableWithCount(s) ==
    /\ BorderStarts(s) # {}
    /\ FirstBorder(s) < LastBorder(s)
    /\ \A st \in LineStarts(s) :
          (FirstBorder(s) <= st /\ st <= LastBorder(s)) => LineAt(s, st)[1] \in {"+", "|"}
    /\ CountLineStarts(s) # {}

\* the parsing step has run: output holds the normalised transcript
Parsed == pc = "log"

(* C6, as claimed: for a transcript with a well-formed table followed by   *)
(* a row-count line the body is exactly the bordered block, trimmed, and   *)
(* the status line is exactly the row-count line, trimmed.                 *)
C6_TableBlockAndCountLine ==
    (Parsed /\ TableWithCount(output)) =>
        /\ query_output = BorderedBlock(output)
        /\ rows = CountLineAfterTable(output)

\* no "Error", the first echo of the query is followed after whitespace only
\* by the table, and the closing border is directly followed by a row-count
\* line that the pattern of line 104 matches in full
EchoThenTable(s, q) ==
    /\ TableWithCount(s)
    /\ ~Contains(s, ErrorWord)
    /\ Find(s, Strip(q)) # -1
    /\ StartsAt(LStrip(From(s, Find(s, Strip(q)) + Len(Strip(q)))), 0,
                BorderedBlock(s) \o <<"\n">> \o CountLineAfterTable(s))
    /\ RowCountLen(CountLineAfterTable(s), 0) = Len(CountLineAfterTable(s))

(* C6, amended: when the transcript holds no "Error" and the echoed query  *)
(* is followed, after whitespace only, by a well-formed table whose        *)
(* closing border is directly followed by the row-count line, the body is  *)
(* exactly the bordered block and the status line is a line break          *)
(* followed by the row-count line.                                         *)
C6_BlockAndLineBreakCount ==
    (Parsed /\ EchoThenTable(output, sql_query)) =>
        /\ query_output = BorderedBlock(output)
        /\ rows = <<"\n">> \o CountLineAfterTable(output)

C6_Witness ==
    /\ Parsed
    /\ EchoThenTable(output, sql_query)
    /\ exit_kind = "marker"

(* C7, as claimed: for a transcript without any border line the body is    *)
(* the full trimmed transcript and the status line is empty.               *)
C7_NoBorderTrimmedBody ==
    (Parsed /\ BorderStarts(output) = {}) =>
        /\ query_output = Strip(output)
        /\ rows = <<>>

(* C7, amended: for a transcript without any border line that does not     *)
(* hold the query text either, the body is the whole transcript with its   *)
(* line endings normalised, not trimmed, and the status line is empty.     *)
C7_NoEchoWholeBody ==
    (Parsed /\ BorderStarts(output) = {} /\ Find(output, Strip(sql_query)) = -1) =>
        /\ query_output = output
        /\ rows = <<>>

C7_Witness ==
    /\ Parsed
    /\ BorderStarts(output) = {}
    /\ Find(output, Strip(sql_query)) = -1
    /\ output # Strip(output)
    /\ query_output = output

\* t with every LF line ending that is not yet a CRLF turned into CRLF
ToCRLF(t) ==
    Flatten([i \in 1..Len(t) |->
        IF t[i] = "\n" /\ (i = 1 \/ t[i - 1] # "\r") THEN <<"\r", "\n">> ELSE <<t[i]>>])

(* C8: the transcript with CRLF line endings parses to the same body and   *)
(* status line as the transcript itself, and normalising the normalised    *)
(* transcript again changes nothing.                                       *)
C8_CrlfEquivalent ==
    Parsed =>
        /\ ParseTranscript(ToCRLF(Flatten(reads)), sql_query)
              = [query_output |-> query_output, rows |-> rows]
        /\ Normalize(output) = output

\* a is a prefix of b
IsPrefix(a, b) == Len(a) <= Len(b) /\ SubSeq(b, 1, Len(a)) = a

\* what the call has added to the log file
Added == From(log_file, prev_len)

(* C9: the log file is append-only: every step leaves the previous content *)
(* as a prefix of the new content, and a call with log_enabled that gets   *)
(* past the logging step has added exactly one record block behind the     *)
(* content it found; a call without log_enabled leaves the file as it was. *)
C9_LogAppendOnly ==
    /\ [][log_file' = log_file
            \/ (IsPrefix(log_file, log_file') /\ Len(log_file') >= Len(log_file))]_vars
    /\ []((pc \in {"close", "return", "done"} /\ log_enabled) =>
            /\ prev_len < Len(log_file)
            /\ StartsAt(Added, 0, <<"\n", "\n">> \o Dashes \o <<"\n">> \o Timestamp)
            /\ Cardinality({i \in 1..Len(Added) : Added[i] = Timestamp[1]}) = 1
            /\ Last(Added) = "\n")
    /\ []((pc \in {"close", "return", "done"} /\ ~log_enabled) => Len(log_file) = prev_len)

C9_Witness ==
    /\ pc = "done"
    /\ log_enabled
    /\ prev_len > 0
    /\ Len(log_file) > prev_len

(* C10: a failure of os.makedirs, open or write in the logging step        *)
(* leaves run_sql as an error: the call ends raised and returns no pair.   *)
C10_LogFailurePropagates ==
    fault # "none" => (pc = "raised" /\ ret = <<>>)

C10_Witness ==
    /\ fault # "none"
    /\ pc = "raised"
    /\ log_enabled

C12_TimeoutErrorRaised ==
    (produced = 0 /\ pc \notin {"idle", "init_send", "init"}) => pc = "raised"

(* C13: alert() is called only by the iteration that leaves the poll loop, *)
(* once, on a terminal marker in the chunk just read or on the timeout:    *)
(* no notification has been made before the loop is left (initialization,  *)
(* draining, polling), exactly one has been made afterwards (parsing,      *)
(* logging, closing, returning), so every returning call made exactly one. *)
C13_NotifiedOnceAtLoopExit ==
    /\ [](pc \in {"idle", "init_send", "init", "clean", "drain", "send", "poll"}
            => alerts = 0)
    /\ [](LoopLeft => alerts = 1)
    /\ [][alerts' # alerts =>
            /\ pc = "poll" /\ pc' = "parse"
            /\ alerts' = alerts + 1
            /\ \/ exit_kind' = "timeout" /\ timeout > 0 /\ elapsed > timeout
               \/ exit_kind' = "marker" /\ reads' # reads
                    /\ TerminalMarker(Last(reads'))]_vars

C13_Witness ==
    /\ pc = "done"
    /\ exit_kind = "marker"
    /\ log_enabled
    /\ alerts = 1

\* the queue the call has to use: the caller's when one was passed, else
\* what the configuration gave, which is the empty text without the key
QueueToUse == IF queue_arg # None THEN queue_arg ELSE default_queue

CommandSent == pc \notin {"idle", "init_send"}

(* C14: the queue name of the session is the caller's value when one was   *)
(* passed, else the configured DEFAULT_QUEUE, else empty. The command sent *)
(* launches the tool with that queue as its argument, so a call without    *)
(* queue_name under DEFAULT_QUEUE = "adhoc" sends a command that contains  *)
(* "adhoc"; with an empty queue the tool is launched with no argument.     *)
C14_QueueResolved ==
    /\ pc # "idle" => queue_name = QueueToUse
    /\ (pc # "idle" /\ queue_arg # None) => default_queue = Unread
    /\ (CommandSent /\ QueueToUse # <<>>) =>
            /\ command = Launch \o <<" ">> \o QueueToUse \o <<";", "\n">>
            /\ Contains(command, QueueToUse)
    /\ (CommandSent /\ queue_arg = None /\ default_queue = Adhoc) =>
            Contains(command, Adhoc)
    /\ (CommandSent /\ QueueToUse = <<>>) =>
            /\ command = Launch \o <<";", "\n">>
            /\ ~Contains(command, Adhoc)
            /\ ~Contains(command, Etl)

\* the scenario of the configured default, with the command sent
C14_Witness ==
    /\ pc = "init"
    /\ queue_arg = None
    /\ default_queue = Adhoc
    /\ Contains(command, Adhoc)

(* C15: a call of run_sql whose poll loop ended by the timeout exit has    *)
(* closed the connection before it returns: at the return statement and    *)
(* after it the connection is closed.                                      *)
C15_ClosedAfterTimeoutExit ==
    (exit_kind = "timeout" /\ pc \in {"return", "done"}) => conn = "closed"

C15_Witness ==
    /\ pc = "done"
    /\ exit_kind = "timeout"
    /\ ret # <<>>
    /\ conn = "closed"

(* C16: every chunk that was available before the query text was sent is  *)
(* discarded by the drain loop and is never part of the transcript: no     *)
(* data is left unread on the channel at the moment of the send, so the    *)
(* first chunk the poll loop reads never begins with such data.            *)
C16_StaleDataDiscarded ==
    (pc \in {"poll", "parse"} /\ reads # <<>>) =>
        (stale = <<>> \/ ~IsPrefix(stale, reads[1]))

(* C17: the poll loop tests only the chunk it has just read. A read ends   *)
(* the loop exactly when that chunk holds a terminal marker, whatever the  *)
(* transcript holds; with timeout = 0 no other step ends it. A marker      *)
(* split across two reads is therefore missed: the loop is still polling   *)
(* while the accumulated transcript contains the marker.                   *)
C17_OnlyLatestChunkTested ==
    /\ [][(pc = "poll" /\ reads' # reads) =>
            (pc' = "parse" <=> TerminalMarker(Last(reads')))]_vars
    /\ [][(pc = "poll" /\ timeout = 0 /\ reads' = reads) => pc' = "poll"]_vars

\* a marker lies across two reads, the remote tool has nothing more to
\* send and no timeout was given: the call polls on
C17_Witness ==
    /\ pc = "poll"
    /\ timeout = 0
    /\ Len(reads) = 2
    /\ TerminalMarker(output)
    /\ ~TerminalMarker(reads[1]) /\ ~TerminalMarker(reads[2])
    /\ produced = MaxChunks
    /\ chan = <<>>
    /\ elapsed = ElapsedCap

(* C18: in each iteration of the poll loop the timeout test comes before   *)
(* the data test. When timeout > 0 and the elapsed time exceeds it, the    *)
(* iteration notifies once and leaves the loop by the timeout exit without *)
(* raising, even if a chunk is ready; that chunk stays unread, and what is *)
(* parsed and returned is the transcript of the chunks read before.        *)
C18_TimeoutTestedFirst ==
    /\ [][(pc = "poll" /\ timeout > 0 /\ elapsed > timeout /\ produced' = produced) =>
            /\ pc' = "parse"
            /\ exit_kind' = "timeout"
            /\ alerts' = alerts + 1
            /\ fault' = "none"
            /\ reads' = reads
            /\ output' = output
            /\ chan' = chan]_vars
    /\ [][exit_kind = "timeout" => reads' = reads]_vars
    /\ []((exit_kind = "timeout" /\ pc = "log") =>
            /\ output = Normalize(Flatten(reads))
            /\ query_output = ParseTranscript(Flatten(reads), sql_query).query_output
            /\ rows = ParseTranscript(Flatten(reads), sql_query).rows)
    /\ []((exit_kind = "timeout" /\ pc = "done") =>
            ret = <<ParseTranscript(Flatten(reads), sql_query).query_output,
                    ParseTranscript(Flatten(reads), sql_query).rows>>)

\* the loop was left on time with a marker chunk ready and unread
C18_Witness ==
    /\ pc = "parse"
    /\ exit_kind = "timeout"
    /\ TerminalMarker(chan)
    /\ alerts = 1
    /\ ~Contains(output, chan)

\* the record block of spec section 4.4 for a query, a body and a status line
RecordOf(q, body, status) ==
    <<"\n", "\n">> \o Dashes \o <<"\n">> \o Timestamp \o <<"\n">> \o Dashes \o <<"\n">>
        \o <<"\n">> \o q \o <<"\n", "\n">> \o body \o status \o <<"\n">>

(* C19: the record a call with log_enabled appends to the log holds the    *)
(* query text as the caller passed it, followed by the body and the status *)
(* line the call returns; a call without log_enabled leaves the log as it  *)
(* found it.                                                               *)
C19_LogHoldsOriginalQuery ==
    /\ (pc = "done" /\ log_enabled) => Added = RecordOf(orig_query, ret[1], ret[2])
    /\ (pc = "done" /\ ~log_enabled) => (Len(log_file) = prev_len /\ log_file = PriorLog)

\* the text looked for as the echo of the query
EchoText == Strip(sql_query)

\* s has a row-count line that starts behind position p
CountLineBehind(s, p) ==
    \E st \in LineStarts(s) : st > p /\ IsCountLine(LineAt(s, st))

(* C20: run_sql returns a non-empty status line only if the normalized     *)
(* transcript contains the cleaned query text, does not contain "Error",   *)
(* and has a row-count line behind the echo. When the echo is not found    *)
(* the body returned is the whole normalized transcript, neither trimmed   *)
(* nor split, and the status line is empty, also when the transcript holds *)
(* a row-count line and the loop was left on it.                           *)
C20_StatusNeedsEcho ==
    pc = "done" =>
        /\ ret[2] # <<>> =>
                /\ Find(output, EchoText) # -1
                /\ ~Contains(output, ErrorWord)
                /\ CountLineBehind(output, Find(output, EchoText) + Len(EchoText))
        /\ Find(output, EchoText) = -1 => ret = <<output, <<>>>>

\* the loop was left on a row-count line, the transcript holds it, and the
\* echo is missing: everything comes back as the body
C20_Witness ==
    /\ pc = "done"
    /\ exit_kind = "marker"
    /\ Find(output, EchoText) = -1
    /\ ~Contains(output, ErrorWord)
    /\ CountLineBehind(output, 0)
    /\ ret = <<output, <<>>>>

====
